---------------------------- MODULE Spec2Model ----------------------------
(***************************************************************************)
(* CodeBot: the token estimator (utils/utils.py), the context packer       *)
(* (context_selector.py) and the Git command validator / executor          *)
(* (git_assistant.py).                                                     *)
(*                                                                         *)
(* A text is a sequence of one-character strings, so that splitting,       *)
(* slicing, stripping and joining are computed character by character as   *)
(* the Python code computes them.                                          *)
(***************************************************************************)
EXTENDS Integers, Sequences, FiniteSets, TLC

VARIABLES
    tokenizer,          \* utils.tokenizer: TRUE = tiktoken encoding loaded, FALSE = None
    \* ---- one call of truncate_text ----
    text, max_tokens, truncated, tr_pc,
    \* ---- one call of ContextSelector.build_context_string ----
    selected_files, repo_data, max_total_context_tokens,
    file_idx, context_parts, total_tokens, accepted, stopped_at, result, pk_pc,
    \* ---- one call of GitAssistant.handle_query ----
    repo_is_git, repo_checks, suggested_commands_str, command_lines, line_idx,
    validated_command_parts, executed_commands, final_output_log, valid_command_found,
    subprocess_runs, llm_queries, fs_written, raised, gq_pc,
    \* ---- one call of RepositoryLoader.load_repository ----
    repo_path_is_dir, tree, max_file_tokens, pending, code_files, file_load_errors,
    ld_raised, ld_returned, ld_pc

trVars == <<text, max_tokens, truncated, tr_pc>>
pkVars == <<selected_files, repo_data, max_total_context_tokens, file_idx,
            context_parts, total_tokens, accepted, stopped_at, result, pk_pc>>
gqVars == <<repo_is_git, repo_checks, suggested_commands_str, command_lines, line_idx,
            validated_command_parts, executed_commands, final_output_log, valid_command_found,
            subprocess_runs, llm_queries, fs_written, raised, gq_pc>>
ldVars == <<repo_path_is_dir, tree, max_file_tokens, pending, code_files, file_load_errors,
            ld_raised, ld_returned, ld_pc>>
vars == <<tokenizer, trVars, pkVars, gqVars, ldVars>>

-----------------------------------------------------------------------------
(* Bounds of the model.                                                    *)

MaxTextLen == 4        \* longest enumerated text handed to truncate_text
MaxTokens == 3         \* largest max_tokens handed to truncate_text
MaxFiles == 3          \* longest selected_files list
MaxLines == 3          \* most lines in one LLM command suggestion
MaxTreeFiles == 2      \* most regular files in the scanned tree

-----------------------------------------------------------------------------
(* Sequences and characters.                                               *)

Min(a, b) == IF a <= b THEN a ELSE b
Max(a, b) == IF a >= b THEN a ELSE b

\* Python s[:n] for n >= 0
Take(s, n) == SubSeq(s, 1, Min(n, Len(s)))

\* The recursive operators on texts halve their range, so that their depth is
\* logarithmic in the length of the text.

\* "".join(parts[lo..hi])
RECURSIVE FlattenRange(_, _, _)
FlattenRange(ss, lo, hi) ==
    IF lo > hi THEN <<>>
    ELSE IF lo = hi THEN ss[lo]
    ELSE LET mid == (lo + hi) \div 2
         IN  FlattenRange(ss, lo, mid) \o FlattenRange(ss, mid + 1, hi)

Flatten(ss) == FlattenRange(ss, 1, Len(ss))

\* Python sep.join(parts)
Join(sep, parts) ==
    Flatten([i \in 1..Len(parts) |-> IF i = 1 THEN parts[i] ELSE sep \o parts[i]])

\* all sequences over S of length at most n
RECURSIVE SeqsUpTo(_, _)
SeqsUpTo(S, n) ==
    IF n = 0 THEN {<<>>}
    ELSE LET shorter == SeqsUpTo(S, n - 1)
         IN  shorter \cup {Append(s, x) : s \in {q \in shorter : Len(q) = n - 1}, x \in S}

\* str.isspace() on one character
IsSpace(c) == c \in {" ", "\n", "\t"}

Letters == {"a", "b", "c", "d", "e", "f", "g", "h", "i", "j", "k", "l", "m", "n", "o",
            "p", "q", "r", "s", "t", "u", "v", "w", "x", "y", "z", "F"}

-----------------------------------------------------------------------------
(* utils.py: token estimation and truncation.                              *)

\* text.split(): the maximal runs of non-whitespace characters, in order
RECURSIVE SplitRange(_, _, _)
SplitRange(t, lo, hi) ==
    IF lo > hi THEN <<>>
    ELSE IF lo = hi THEN (IF IsSpace(t[lo]) THEN <<>> ELSE << <<t[lo]>> >>)
    ELSE LET mid == (lo + hi) \div 2
             L == SplitRange(t, lo, mid)
             R == SplitRange(t, mid + 1, hi)
         IN  IF ~IsSpace(t[mid]) /\ ~IsSpace(t[mid + 1])
             THEN SubSeq(L, 1, Len(L) - 1) \o << L[Len(L)] \o R[1] >> \o Tail(R)
             ELSE L \o R

split(t) == SplitRange(t, 1, Len(t))

\* The cl100k_base encoding is modelled by its pre-tokenisation: a token is a
\* maximal run of characters of one class (letters, whitespace, other), and
\* decoding concatenates the tokens.  A text holding a special-token literal
\* makes tiktoken's encode raise (disallowed_special defaults to "all").
CharClass(c) == IF IsSpace(c) THEN "space" ELSE IF c \in Letters THEN "letter" ELSE "other"

SpecialToken == <<"<", "|", "e", "n", "d", "o", "f", "t", "e", "x", "t", "|", ">">>

EncodeRaises(t) ==
    \E i \in 1..(Len(t) - Len(SpecialToken) + 1) :
        SubSeq(t, i, i + Len(SpecialToken) - 1) = SpecialToken

RECURSIVE EncodeRange(_, _, _)
EncodeRange(t, lo, hi) ==
    IF lo > hi THEN <<>>
    ELSE IF lo = hi THEN << <<t[lo]>> >>
    ELSE LET mid == (lo + hi) \div 2
             L == EncodeRange(t, lo, mid)
             R == EncodeRange(t, mid + 1, hi)
         IN  IF CharClass(t[mid]) = CharClass(t[mid + 1])
             THEN SubSeq(L, 1, Len(L) - 1) \o << L[Len(L)] \o R[1] >> \o Tail(R)
             ELSE L \o R

encode(t) == EncodeRange(t, 1, Len(t))

decode(tokens) == Flatten(tokens)

\* the truncation marker "\n... [truncated]"
Marker == <<"\n", ".", ".", ".", " ", "[", "t", "r", "u", "n", "c", "a", "t", "e", "d", "]">>

avg_chars_per_token == 4
safer_margin == 5

count_tokens(t) ==
    IF t = <<>> THEN 0
    ELSE IF tokenizer
         THEN IF EncodeRaises(t) THEN Len(split(t)) ELSE Len(encode(t))
         ELSE Len(split(t))

\* the branch of count_tokens that produces the estimate of t: the tokenizer,
\* the word count, or neither for the empty text
estimate_method(t) ==
    IF t = <<>> THEN "none"
    ELSE IF tokenizer
         THEN IF EncodeRaises(t) THEN "words" ELSE "tokenizer"
         ELSE "words"

\* What tokenizer.decode does on the truncated token list: it succeeds
\* ("ok"), raises once and succeeds on the shorter list ("retry"), or raises
\* both times ("chars").
DecodeOutcomes == {"ok", "retry", "chars"}

\* a text whose estimate equals max_tokens is truncated all the same
truncate_text_strict(t, n, dec) ==
    IF t = <<>> \/ n <= 0 THEN <<>>
    ELSE IF count_tokens(t) < n THEN t
    ELSE IF tokenizer
         THEN IF EncodeRaises(t)
              THEN Take(t, n * avg_chars_per_token) \o Marker
              ELSE LET tokens == encode(t)
                   IN  CASE dec = "ok"    -> decode(Take(tokens, n)) \o Marker
                         [] dec = "retry" -> decode(Take(tokens, Max(0, n - safer_margin))) \o Marker
                         [] OTHER         -> Take(t, n * avg_chars_per_token) \o Marker
         ELSE Join(<<" ">>, Take(split(t), n)) \o Marker

truncate_text(t, n, dec) ==
    IF t = <<>> \/ n <= 0 THEN <<>>
    ELSE IF count_tokens(t) <= n THEN t
    ELSE IF tokenizer
         THEN IF EncodeRaises(t)
              THEN Take(t, n * avg_chars_per_token) \o Marker
              ELSE LET tokens == encode(t)
                   IN  CASE dec = "ok"    -> decode(Take(tokens, n)) \o Marker
                         [] dec = "retry" -> decode(Take(tokens, Max(0, n - safer_margin))) \o Marker
                         [] OTHER         -> Take(t, n * avg_chars_per_token) \o Marker
         ELSE Join(<<" ">>, Take(split(t), n)) \o Marker

-----------------------------------------------------------------------------
(* One call of truncate_text(text, max_tokens).                            *)

TruncAlphabet == {"a", " ", "."}

TruncTexts ==
    SeqsUpTo(TruncAlphabet, MaxTextLen)
        \cup {SpecialToken, SpecialToken \o <<" ", "a", " ", "a", " ", "a", " ", "a">>}

IdleTruncate ==
    /\ text = <<>>
    /\ max_tokens = 0
    /\ truncated = <<>>
    /\ tr_pc = "idle"

TruncateCall ==
    /\ tr_pc = "call"
    /\ \E dec \in DecodeOutcomes : truncated' = truncate_text(text, max_tokens, dec)
    /\ tr_pc' = "done"
    /\ UNCHANGED <<tokenizer, text, max_tokens, pkVars, gqVars, ldVars>>

-----------------------------------------------------------------------------
(* context_selector.py: one call of build_context_string.                  *)

separator ==
    <<"\n", "\n">> \o [i \in 1..20 |-> "="] \o <<"\n", "\n">>

\* f"--- File: {file_path} ---\n"
header(file_path) ==
    <<"-", "-", "-", " ", "F", "i", "l", "e", ":", " ">> \o file_path
        \o <<" ", "-", "-", "-", "\n">>

separator_tokens == count_tokens(separator)

min_meaningful_tokens == 50

\* k one-letter words separated by single spaces
Words(k) == Join(<<" ">>, [i \in 1..k |-> <<"a">>])

LoadedPaths == {<<"a">>, <<"b">>}
PathNames == LoadedPaths \cup {<<"x">>}          \* "x" was never loaded
\* a text on which tokenizer.encode raises: the special-token literal, then
\* k one-letter words
SpecialWords(k) == SpecialToken \o Flatten([i \in 1..k |-> <<" ", "a">>])

FileContents == {<<>>, <<" ">>, Words(2), Words(30), Words(60), SpecialWords(96)}
ContextLimits == {0, 30, 60, 120}

IdlePack ==
    /\ selected_files = <<>>
    /\ repo_data = <<>>
    /\ max_total_context_tokens = 0
    /\ file_idx = 1
    /\ context_parts = <<>>
    /\ total_tokens = 0
    /\ accepted = <<>>
    /\ stopped_at = 0
    /\ result = <<>>
    /\ pk_pc = "idle"

InLoop == pk_pc = "loop" /\ file_idx <= Len(selected_files)

file_path == selected_files[file_idx]

\* (separator_tokens if context_parts else 0)
SeparatorCost(parts) == IF parts # <<>> THEN separator_tokens ELSE 0

needed_tokens ==
    count_tokens(header(file_path)) + count_tokens(repo_data[file_path])
        + SeparatorCost(context_parts)

\* the header of the file is not taken off the space left
available_tokens_without_header ==
    max_total_context_tokens - total_tokens - SeparatorCost(context_parts)

available_tokens ==
    max_total_context_tokens - total_tokens - count_tokens(header(file_path))
        - SeparatorCost(context_parts)

FitsWhole == total_tokens + needed_tokens <= max_total_context_tokens

\* the loop is left at a path that is not in repo_data
PackSkipBreaks ==
    /\ InLoop
    /\ file_path \notin DOMAIN repo_data
    /\ stopped_at' = file_idx
    /\ pk_pc' = "join"
    /\ UNCHANGED <<tokenizer, trVars, gqVars, ldVars, selected_files, repo_data,
                   max_total_context_tokens, file_idx, context_parts, total_tokens,
                   accepted, result>>

PackSkip ==
    /\ InLoop
    /\ file_path \notin DOMAIN repo_data
    /\ file_idx' = file_idx + 1
    /\ UNCHANGED <<tokenizer, trVars, gqVars, ldVars, selected_files, repo_data,
                   max_total_context_tokens, context_parts, total_tokens, accepted,
                   stopped_at, result, pk_pc>>

PackWhole ==
    /\ InLoop
    /\ file_path \in DOMAIN repo_data
    /\ FitsWhole
    /\ context_parts' = Append(context_parts, header(file_path) \o repo_data[file_path])
    /\ total_tokens' = total_tokens + needed_tokens
    /\ accepted' = Append(accepted, [idx |-> file_idx, how |-> "whole"])
    /\ file_idx' = file_idx + 1
    /\ UNCHANGED <<tokenizer, trVars, gqVars, ldVars, selected_files, repo_data,
                   max_total_context_tokens, stopped_at, result, pk_pc>>

PackTruncate ==
    /\ InLoop
    /\ file_path \in DOMAIN repo_data
    /\ ~FitsWhole
    /\ available_tokens > min_meaningful_tokens
    /\ \E dec \in DecodeOutcomes :
         LET truncated_content == truncate_text(repo_data[file_path], available_tokens, dec)
             truncated_tokens == count_tokens(truncated_content)
             parts == Append(context_parts, header(file_path) \o truncated_content)
         IN  /\ context_parts' = parts
             /\ total_tokens' = total_tokens + count_tokens(header(file_path))
                                  + truncated_tokens + SeparatorCost(parts)
    /\ accepted' = Append(accepted, [idx |-> file_idx, how |-> "truncated"])
    /\ stopped_at' = file_idx
    /\ pk_pc' = "join"
    /\ UNCHANGED <<tokenizer, trVars, gqVars, ldVars, selected_files, repo_data,
                   max_total_context_tokens, file_idx, result>>

\* the file that does not fit is passed over and the loop goes on
PackStopContinues ==
    /\ InLoop
    /\ file_path \in DOMAIN repo_data
    /\ ~FitsWhole
    /\ available_tokens <= min_meaningful_tokens
    /\ file_idx' = file_idx + 1
    /\ UNCHANGED <<tokenizer, trVars, gqVars, ldVars, selected_files, repo_data,
                   max_total_context_tokens, context_parts, total_tokens,
                   accepted, stopped_at, result, pk_pc>>

PackStop ==
    /\ InLoop
    /\ file_path \in DOMAIN repo_data
    /\ ~FitsWhole
    /\ available_tokens <= min_meaningful_tokens
    /\ stopped_at' = file_idx
    /\ pk_pc' = "join"
    /\ UNCHANGED <<tokenizer, trVars, gqVars, ldVars, selected_files, repo_data,
                   max_total_context_tokens, file_idx, context_parts, total_tokens,
                   accepted, result>>

PackReturn ==
    /\ \/ pk_pc = "join"
       \/ pk_pc = "loop" /\ file_idx > Len(selected_files)
    /\ result' = Join(separator, context_parts)
    /\ pk_pc' = "done"
    /\ UNCHANGED <<tokenizer, trVars, gqVars, ldVars, selected_files, repo_data,
                   max_total_context_tokens, file_idx, context_parts, total_tokens,
                   accepted, stopped_at>>

-----------------------------------------------------------------------------
(* git_assistant.py: _validate_git_command.                                *)

\* str.strip(): from the first to the last character that is not whitespace
strip(s) ==
    IF \A i \in 1..Len(s) : IsSpace(s[i]) THEN <<>>
    ELSE SubSeq(s,
                CHOOSE i \in 1..Len(s) : ~IsSpace(s[i]) /\ \A j \in 1..(i - 1) : IsSpace(s[j]),
                CHOOSE i \in 1..Len(s) : ~IsSpace(s[i]) /\ \A j \in (i + 1)..Len(s) : IsSpace(s[j]))

\* the pieces of t[lo..hi] between line feeds (one more than the line feeds)
RECURSIVE LinePieces(_, _, _)
LinePieces(t, lo, hi) ==
    IF lo > hi THEN << <<>> >>
    ELSE IF lo = hi THEN (IF t[lo] = "\n" THEN << <<>>, <<>> >> ELSE << <<t[lo]>> >>)
    ELSE LET mid == (lo + hi) \div 2
             L == LinePieces(t, lo, mid)
             R == LinePieces(t, mid + 1, hi)
         IN  SubSeq(L, 1, Len(L) - 1) \o << L[Len(L)] \o R[1] >> \o Tail(R)

\* str.splitlines(): no line for the empty text, none after a final line feed
splitlines(t) ==
    IF t = <<>> THEN <<>>
    ELSE LET p == LinePieces(t, 1, Len(t))
         IN  IF p[Len(p)] = <<>> THEN SubSeq(p, 1, Len(p) - 1) ELSE p

Quotes == {"'", "\""}

ShlexEmit(acc, token, quoted) ==
    IF token # <<>> \/ quoted THEN Append(acc, token) ELSE acc

\* shlex.split(s): the POSIX tokenizer with whitespace_split and no comments.
\* state is "ws" (between tokens), "word", an open quote character or "\\"
\* (after an escape); ok = FALSE is the ValueError of an unclosed quote or
\* of a trailing escape.
RECURSIVE ShlexFrom(_, _, _, _, _, _, _)
ShlexFrom(s, i, state, escapedstate, token, quoted, acc) ==
    IF i > Len(s)
    THEN IF state \in Quotes \/ state = "\\"
         THEN [ok |-> FALSE, parts |-> <<>>]
         ELSE [ok |-> TRUE, parts |-> ShlexEmit(acc, token, quoted)]
    ELSE LET c == s[i] IN
         CASE state = "ws" ->
                IF IsSpace(c) THEN ShlexFrom(s, i + 1, "ws", escapedstate, <<>>, FALSE, acc)
                ELSE IF c = "\\" THEN ShlexFrom(s, i + 1, "\\", "word", token, quoted, acc)
                ELSE IF c \in Quotes THEN ShlexFrom(s, i + 1, c, escapedstate, token, TRUE, acc)
                ELSE ShlexFrom(s, i + 1, "word", escapedstate, <<c>>, quoted, acc)
           [] state \in Quotes ->
                IF c = state THEN ShlexFrom(s, i + 1, "word", escapedstate, token, TRUE, acc)
                ELSE IF state = "\"" /\ c = "\\"
                     THEN ShlexFrom(s, i + 1, "\\", state, token, TRUE, acc)
                ELSE ShlexFrom(s, i + 1, state, escapedstate, Append(token, c), TRUE, acc)
           [] state = "\\" ->
                IF escapedstate \in Quotes /\ c # "\\" /\ c # escapedstate
                THEN ShlexFrom(s, i + 1, escapedstate, escapedstate,
                               token \o <<"\\", c>>, quoted, acc)
                ELSE ShlexFrom(s, i + 1, escapedstate, escapedstate,
                               Append(token, c), quoted, acc)
           [] OTHER ->
                IF IsSpace(c)
                THEN ShlexFrom(s, i + 1, "ws", escapedstate, <<>>, FALSE,
                               ShlexEmit(acc, token, quoted))
                ELSE IF c \in Quotes THEN ShlexFrom(s, i + 1, c, escapedstate, token, TRUE, acc)
                ELSE IF c = "\\" THEN ShlexFrom(s, i + 1, "\\", "word", token, quoted, acc)
                ELSE ShlexFrom(s, i + 1, "word", escapedstate, Append(token, c), quoted, acc)

\* the line is cut at whitespace only, as str.split() does: quotes are not honoured
shlex_split_plain(s) == [ok |-> TRUE, parts |-> split(s)]

shlex_split(s) == ShlexFrom(s, 1, "ws", "ws", <<>>, FALSE, <<>>)

Tok_git == <<"g", "i", "t">>
Tok_log == <<"l", "o", "g">>
Tok_blame == <<"b", "l", "a", "m", "e">>

ALLOWED_GIT_COMMANDS == {Tok_log, Tok_blame}

\* the None that _validate_git_command returns for a rejected line
None == [accepted |-> FALSE, parts |-> <<>>]

\* the subcommand is not checked against the allow-list
validate_without_allow_list(command_str) ==
    IF command_str = <<>> THEN None
    ELSE LET r == shlex_split(command_str)
         IN  IF ~r.ok THEN None
             ELSE IF Len(r.parts) < 2 \/ r.parts[1] # Tok_git THEN None
             ELSE [accepted |-> TRUE, parts |-> r.parts]

_validate_git_command(command_str) ==
    IF command_str = <<>> THEN None
    ELSE LET r == shlex_split(command_str)
         IN  IF ~r.ok THEN None
             ELSE IF Len(r.parts) < 2 \/ r.parts[1] # Tok_git THEN None
             ELSE IF r.parts[2] \notin ALLOWED_GIT_COMMANDS THEN None
             ELSE [accepted |-> TRUE, parts |-> r.parts]

-----------------------------------------------------------------------------
(* git_assistant.py: one call of handle_query.                             *)

Cmd_log_oneline == <<"g", "i", "t", " ", "l", "o", "g", " ", "-", "-", "o", "n", "e", "l", "i", "n", "e">>
Cmd_rm == <<"r", "m", " ", "-", "r", "f", " ", "/">>
Cmd_push == <<"g", "i", "t", " ", "p", "u", "s", "h", " ", "o", "r", "i", "g", "i", "n", " ", "m", "a", "i", "n">>
Cmd_blame_quoted == <<"g", "i", "t", " ", "b", "l", "a", "m", "e", " ", "'", "f", "i", "l", "e", " ", "w", "i", "t", "h", " ", "s", "p", "a", "c", "e", "s", ".", "p", "y", "'">>
Cmd_unbalanced == <<"g", "i", "t", " ", "l", "o", "g", " ", "'", "a">>
\* indented, with a trailing blank: "  git log --output=/tmp/x "
Cmd_log_output == <<" ", " ", "g", "i", "t", " ", "l", "o", "g", " ", "-", "-", "o", "u", "t", "p", "u", "t", "=", "/", "t", "m", "p", "/", "x", " ">>
Cmd_git_only == <<"g", "i", "t">>

\* the lines an LLM suggestion is made of
SuggestedLines ==
    {Cmd_log_oneline, Cmd_rm, Cmd_push, Cmd_blame_quoted, Cmd_unbalanced,
     Cmd_log_output, Cmd_git_only, <<>>}

\* what a command prints on its standard output
Stdouts == {<<"o", "k", "\n">>}

\* git log and git blame take the diff option --output=<file>, which makes git
\* write its output to that file.
OutputFlag == <<"-", "-", "o", "u", "t", "p", "u", "t", "=">>

GitWritesFile(argv) ==
    \E i \in 3..Len(argv) : Take(argv[i], Len(OutputFlag)) = OutputFlag

LlmQuery(kind, commands, output, ok) ==
    [kind |-> kind, git_commands |-> commands, git_output |-> output, ok |-> ok]

\* repo_root.is_dir() and (repo_root / ".git").is_dir(), once, before anything else
GqCheckRepoNoRaise ==
    /\ gq_pc = "check"
    /\ repo_checks' = repo_checks + 1
    /\ gq_pc' = "suggest"
    /\ UNCHANGED <<tokenizer, trVars, pkVars, ldVars, repo_is_git, suggested_commands_str,
                   command_lines, line_idx, validated_command_parts, executed_commands,
                   final_output_log, valid_command_found, subprocess_runs, llm_queries,
                   fs_written, raised>>

GqCheckRepo ==
    /\ gq_pc = "check"
    /\ repo_checks' = repo_checks + 1
    /\ IF repo_is_git
       THEN gq_pc' = "suggest" /\ raised' = raised
       ELSE gq_pc' = "done" /\ raised' = "GitExecutionError"
    /\ UNCHANGED <<tokenizer, trVars, pkVars, ldVars, repo_is_git, suggested_commands_str,
                   command_lines, line_idx, validated_command_parts, executed_commands,
                   final_output_log, valid_command_found, subprocess_runs, llm_queries,
                   fs_written>>

\* self.llm.query(command_gen_prompt): a text of lines, or LLMInteractionError
GqSuggest ==
    /\ gq_pc = "suggest"
    /\ \/ /\ llm_queries' = Append(llm_queries, LlmQuery("command_gen", <<>>, <<>>, FALSE))
          /\ raised' = "LLMInteractionError"
          /\ gq_pc' = "done"
          /\ UNCHANGED <<suggested_commands_str, command_lines>>
       \/ \E ls \in SeqsUpTo(SuggestedLines, MaxLines) :
            /\ llm_queries' = Append(llm_queries, LlmQuery("command_gen", <<>>, <<>>, TRUE))
            /\ suggested_commands_str' = Join(<<"\n">>, ls)
            /\ command_lines' = splitlines(strip(Join(<<"\n">>, ls)))
            /\ gq_pc' = "loop"
            /\ raised' = raised
    /\ UNCHANGED <<tokenizer, trVars, pkVars, ldVars, repo_is_git, repo_checks, line_idx,
                   validated_command_parts, executed_commands, final_output_log,
                   valid_command_found, subprocess_runs, fs_written>>

command_str == command_lines[line_idx]

\* validated_command_parts = self._validate_git_command(command_str.strip())
GqValidate ==
    /\ gq_pc = "loop"
    /\ line_idx <= Len(command_lines)
    /\ validated_command_parts' = _validate_git_command(strip(command_str))
    /\ gq_pc' = "validated"
    /\ UNCHANGED <<tokenizer, trVars, pkVars, ldVars, repo_is_git, repo_checks,
                   suggested_commands_str, command_lines, line_idx, executed_commands,
                   final_output_log, valid_command_found, subprocess_runs, llm_queries,
                   fs_written, raised>>

\* if not validated_command_parts: continue
GqReject ==
    /\ gq_pc = "validated"
    /\ ~validated_command_parts.accepted \/ validated_command_parts.parts = <<>>
    /\ line_idx' = line_idx + 1
    /\ gq_pc' = "loop"
    /\ UNCHANGED <<tokenizer, trVars, pkVars, ldVars, repo_is_git, repo_checks,
                   suggested_commands_str, command_lines, validated_command_parts,
                   executed_commands, final_output_log, valid_command_found,
                   subprocess_runs, llm_queries, fs_written, raised>>

Runnable ==
    /\ gq_pc = "validated"
    /\ validated_command_parts.accepted
    /\ validated_command_parts.parts # <<>>

\* subprocess.run(..., check=True) returns: exit status 0
GqRunOk ==
    /\ Runnable
    /\ executed_commands' = Append(executed_commands, command_str)
    /\ subprocess_runs' = Append(subprocess_runs,
                                 [argv |-> validated_command_parts.parts, outcome |-> "ok"])
    /\ fs_written' = (fs_written \/ GitWritesFile(validated_command_parts.parts))
    /\ valid_command_found' = TRUE
    /\ \E stdout \in Stdouts : final_output_log' = Append(final_output_log, strip(stdout))
    /\ line_idx' = line_idx + 1
    /\ gq_pc' = "loop"
    /\ UNCHANGED <<tokenizer, trVars, pkVars, ldVars, repo_is_git, repo_checks,
                   suggested_commands_str, command_lines, validated_command_parts,
                   llm_queries, raised>>

\* a failed run ends the batch
GqRunFailAborts ==
    /\ Runnable
    /\ executed_commands' = Append(executed_commands, command_str)
    /\ \E outcome \in {"nonzero", "spawn_error"} :
         subprocess_runs' = Append(subprocess_runs,
                                   [argv |-> validated_command_parts.parts, outcome |-> outcome])
    /\ line_idx' = Len(command_lines) + 1
    /\ gq_pc' = "loop"
    /\ UNCHANGED <<tokenizer, trVars, pkVars, ldVars, repo_is_git, repo_checks,
                   suggested_commands_str, command_lines, validated_command_parts,
                   final_output_log, valid_command_found, llm_queries, fs_written, raised>>

\* a failed run counted as a usable one
GqRunFailCounted ==
    /\ Runnable
    /\ executed_commands' = Append(executed_commands, command_str)
    /\ \E outcome \in {"nonzero", "spawn_error"} :
         subprocess_runs' = Append(subprocess_runs,
                                   [argv |-> validated_command_parts.parts, outcome |-> outcome])
    /\ valid_command_found' = TRUE
    /\ line_idx' = line_idx + 1
    /\ gq_pc' = "loop"
    /\ UNCHANGED <<tokenizer, trVars, pkVars, ldVars, repo_is_git, repo_checks,
                   suggested_commands_str, command_lines, validated_command_parts,
                   final_output_log, llm_queries, fs_written, raised>>

\* subprocess.run raises (CalledProcessError on a non-zero exit status, OSError
\* when the process cannot be started); the except clause logs and goes on
GqRunFail ==
    /\ Runnable
    /\ executed_commands' = Append(executed_commands, command_str)
    /\ \E outcome \in {"nonzero", "spawn_error"} :
         subprocess_runs' = Append(subprocess_runs,
                                   [argv |-> validated_command_parts.parts, outcome |-> outcome])
    /\ line_idx' = line_idx + 1
    /\ gq_pc' = "loop"
    /\ UNCHANGED <<tokenizer, trVars, pkVars, ldVars, repo_is_git, repo_checks,
                   suggested_commands_str, command_lines, validated_command_parts,
                   final_output_log, valid_command_found, llm_queries, fs_written, raised>>

LoopOver == gq_pc = "loop" /\ line_idx > Len(command_lines)

\* if not valid_command_found: raise GitExecutionError
GqNoValidCommand ==
    /\ LoopOver
    /\ ~valid_command_found
    /\ raised' = "GitExecutionError"
    /\ gq_pc' = "done"
    /\ UNCHANGED <<tokenizer, trVars, pkVars, ldVars, repo_is_git, repo_checks,
                   suggested_commands_str, command_lines, line_idx, validated_command_parts,
                   executed_commands, final_output_log, valid_command_found,
                   subprocess_runs, llm_queries, fs_written>>

OutputJoiner == <<"\n", "-", "-", "-", "\n">>

\* self.llm.query(synthesis_prompt): the answer, or LLMInteractionError
GqSynthesize ==
    /\ LoopOver
    /\ valid_command_found
    /\ \E ok \in BOOLEAN :
         /\ llm_queries' = Append(llm_queries,
                LlmQuery("synthesis", Join(<<"\n">>, executed_commands),
                         strip(Join(OutputJoiner, final_output_log)), ok))
         /\ raised' = IF ok THEN raised ELSE "LLMInteractionError"
    /\ gq_pc' = "done"
    /\ UNCHANGED <<tokenizer, trVars, pkVars, ldVars, repo_is_git, repo_checks,
                   suggested_commands_str, command_lines, line_idx, validated_command_parts,
                   executed_commands, final_output_log, valid_command_found,
                   subprocess_runs, fs_written>>

-----------------------------------------------------------------------------
(* repository_loader.py: one call of load_repository.                      *)

N_git == <<".", "g", "i", "t">>
N_pycache == <<"_", "_", "p", "y", "c", "a", "c", "h", "e", "_", "_">>
N_env == <<".", "e", "n", "v">>
N_src == <<"s", "r", "c">>
N_main == <<"m", ".", "p", "y">>

\* the defaults set by RepositoryLoader.__init__
ignore_dirs == {N_git, N_pycache}
ignore_files == {N_env}

\* Path(repo_path_str).resolve(): the parts of an absolute path
repo_path == << <<"/">>, <<"r">> >>

\* path.relative_to(root).parts; ok = FALSE is the ValueError
relative_to(path, root) ==
    IF Len(path) >= Len(root) /\ SubSeq(path, 1, Len(root)) = root
    THEN [ok |-> TRUE, parts |-> SubSeq(path, Len(root) + 1, Len(path))]
    ELSE [ok |-> FALSE, parts |-> <<>>]

\* path.name
name(path) == path[Len(path)]

\* str(path) of a relative path
str(parts) == Join(<<"/">>, parts)

\* The scanned tree maps the parts of a path relative to the root to what
\* lies there: a directory, or a regular file with its text, which open()
\* may fail to read.
DirEntry == [kind |-> "dir", readable |-> TRUE, content |-> <<>>]

LoadContents == {<<>>, <<" ">>, Words(3)}

FileEntries ==
    {[kind |-> "file", readable |-> TRUE, content |-> c] : c \in LoadContents}
        \cup {[kind |-> "file", readable |-> FALSE, content |-> <<>>]}

\* regular files a tree may hold; N_git occurs as a directory and as a file
CandidateFiles ==
    {<<N_main>>, <<N_src, N_main>>, <<N_git, N_main>>, <<N_src, N_git, N_main>>,
     <<N_env>>, <<N_git>>}

Prefixes(p) == {SubSeq(p, 1, k) : k \in 1..(Len(p) - 1)}

FileSets ==
    {F \in SUBSET CandidateFiles :
        /\ Cardinality(F) <= MaxTreeFiles
        /\ \A p \in F, q \in F : p \notin Prefixes(q)}

\* directories without entries
EmptyDirSets(F) == IF <<N_git>> \in F THEN {{}} ELSE {{}, {<<N_git>>}}

Trees ==
    UNION {UNION {{[p \in F \cup E \cup UNION {Prefixes(q) : q \in F} |->
                        IF p \in F THEN fs[p] ELSE DirEntry] : fs \in [F -> FileEntries]}
                  : E \in EmptyDirSets(F)}
           : F \in FileSets}

FileTokenCaps == {2, 5}

is_dir(path) ==
    LET r == relative_to(path, repo_path)
    IN  r.ok /\ (r.parts = <<>> \/ (r.parts \in DOMAIN tree /\ tree[r.parts].kind = "dir"))

is_file(path) ==
    LET r == relative_to(path, repo_path)
    IN  r.ok /\ r.parts \in DOMAIN tree /\ tree[r.parts].kind = "file"

_is_ignored(path, repo_root) ==
    IF name(path) \in ignore_files THEN TRUE
    ELSE LET r == relative_to(path, repo_root)
         IN  IF ~r.ok THEN TRUE
             ELSE IF \E i \in 1..Len(r.parts) : r.parts[i] \in ignore_dirs THEN TRUE
             ELSE IF is_dir(path) /\ name(path) \in ignore_dirs THEN TRUE
             ELSE FALSE

IdleLoad ==
    /\ repo_path_is_dir = FALSE
    /\ tree = <<>>
    /\ max_file_tokens = 0
    /\ pending = {}
    /\ code_files = <<>>
    /\ file_load_errors = <<>>
    /\ ld_raised = "none"
    /\ ld_returned = FALSE
    /\ ld_pc = "idle"

\* if not repo_path.is_dir(): raise RepoProcessingError
LdCheckRoot ==
    /\ ld_pc = "check"
    /\ IF repo_path_is_dir
       THEN ld_pc' = "walk" /\ ld_raised' = ld_raised
       ELSE ld_pc' = "done" /\ ld_raised' = "RepoProcessingError"
    /\ UNCHANGED <<tokenizer, trVars, pkVars, gqVars, repo_path_is_dir, tree,
                   max_file_tokens, pending, code_files, file_load_errors, ld_returned>>

\* repo_path.rglob('*') yields every entry below the root, a directory before
\* what it holds, in the order the operating system lists them
Yielded(rel) ==
    /\ ld_pc = "walk"
    /\ rel \in pending
    /\ \A q \in Prefixes(rel) : q \notin pending

\* if self._is_ignored(item_path, repo_path): continue
LdSkipIgnored ==
    \E rel \in pending :
        LET item_path == repo_path \o rel
        IN  /\ Yielded(rel)
            /\ _is_ignored(item_path, repo_path)
            /\ pending' = pending \ {rel}
            /\ UNCHANGED <<tokenizer, trVars, pkVars, gqVars, repo_path_is_dir, tree,
                           max_file_tokens, code_files, file_load_errors, ld_raised,
                           ld_returned, ld_pc>>

\* if item_path.is_file(): ... (a directory is passed over)
LdSkipDir ==
    \E rel \in pending :
        LET item_path == repo_path \o rel
        IN  /\ Yielded(rel)
            /\ ~_is_ignored(item_path, repo_path)
            /\ ~is_file(item_path)
            /\ pending' = pending \ {rel}
            /\ UNCHANGED <<tokenizer, trVars, pkVars, gqVars, repo_path_is_dir, tree,
                           max_file_tokens, code_files, file_load_errors, ld_raised,
                           ld_returned, ld_pc>>

\* the file is read, cut to max_file_tokens when its estimate is above, and stored
LdReadOk ==
    \E rel \in pending :
        LET item_path == repo_path \o rel
        IN  /\ Yielded(rel)
            /\ ~_is_ignored(item_path, repo_path)
            /\ is_file(item_path)
            /\ tree[rel].readable
            /\ \E dec \in DecodeOutcomes :
                 LET relative_path == str(relative_to(item_path, repo_path).parts)
                     content == tree[rel].content
                     token_count == count_tokens(content)
                     stored == IF token_count > max_file_tokens
                               THEN truncate_text(content, max_file_tokens, dec)
                               ELSE content
                 IN  code_files' = [k \in DOMAIN code_files \cup {relative_path} |->
                                        IF k = relative_path THEN stored ELSE code_files[k]]
            /\ pending' = pending \ {rel}
            /\ UNCHANGED <<tokenizer, trVars, pkVars, gqVars, repo_path_is_dir, tree,
                           max_file_tokens, file_load_errors, ld_raised, ld_returned, ld_pc>>

\* a file that cannot be read is left out and the scan goes on without a record
LdReadFailSkips ==
    \E rel \in pending :
        LET item_path == repo_path \o rel
        IN  /\ Yielded(rel)
            /\ ~_is_ignored(item_path, repo_path)
            /\ is_file(item_path)
            /\ ~tree[rel].readable
            /\ pending' = pending \ {rel}
            /\ UNCHANGED <<tokenizer, trVars, pkVars, gqVars, repo_path_is_dir, tree,
                           max_file_tokens, code_files, file_load_errors, ld_raised,
                           ld_returned, ld_pc>>

\* open() or read() raises: except Exception appends to file_load_errors
LdReadFail ==
    \E rel \in pending :
        LET item_path == repo_path \o rel
        IN  /\ Yielded(rel)
            /\ ~_is_ignored(item_path, repo_path)
            /\ is_file(item_path)
            /\ ~tree[rel].readable
            /\ file_load_errors' = Append(file_load_errors, item_path)
            /\ pending' = pending \ {rel}
            /\ UNCHANGED <<tokenizer, trVars, pkVars, gqVars, repo_path_is_dir, tree,
                           max_file_tokens, code_files, ld_raised, ld_returned, ld_pc>>

WalkOver == ld_pc = "walk" /\ pending = {}

\* if file_load_errors: raise RepoProcessingError
LdRaiseErrors ==
    /\ WalkOver
    /\ file_load_errors # <<>>
    /\ ld_raised' = "RepoProcessingError"
    /\ ld_pc' = "done"
    /\ UNCHANGED <<tokenizer, trVars, pkVars, gqVars, repo_path_is_dir, tree,
                   max_file_tokens, pending, code_files, file_load_errors, ld_returned>>

\* if not code_files: raise RepoProcessingError
LdRaiseNoFiles ==
    /\ WalkOver
    /\ file_load_errors = <<>>
    /\ DOMAIN code_files = {}
    /\ ld_raised' = "RepoProcessingError"
    /\ ld_pc' = "done"
    /\ UNCHANGED <<tokenizer, trVars, pkVars, gqVars, repo_path_is_dir, tree,
                   max_file_tokens, pending, code_files, file_load_errors, ld_returned>>

\* return code_files
LdReturn ==
    /\ WalkOver
    /\ file_load_errors = <<>>
    /\ DOMAIN code_files # {}
    /\ ld_returned' = TRUE
    /\ ld_pc' = "done"
    /\ UNCHANGED <<tokenizer, trVars, pkVars, gqVars, repo_path_is_dir, tree,
                   max_file_tokens, pending, code_files, file_load_errors, ld_raised>>

-----------------------------------------------------------------------------
(* Specifications.                                                         *)

IdleGit ==
    /\ repo_is_git = FALSE
    /\ repo_checks = 0
    /\ suggested_commands_str = <<>>
    /\ command_lines = <<>>
    /\ line_idx = 1
    /\ validated_command_parts = None
    /\ executed_commands = <<>>
    /\ final_output_log = <<>>
    /\ valid_command_found = FALSE
    /\ subprocess_runs = <<>>
    /\ llm_queries = <<>>
    /\ fs_written = FALSE
    /\ raised = "none"
    /\ gq_pc = "idle"

InitTruncate ==
    /\ tokenizer \in BOOLEAN
    /\ text \in TruncTexts
    /\ max_tokens \in 0..MaxTokens
    /\ truncated = <<>>
    /\ tr_pc = "call"
    /\ IdlePack
    /\ IdleGit
    /\ IdleLoad

NextTruncate == TruncateCall

SpecTruncate == InitTruncate /\ [][NextTruncate]_vars

InitPack ==
    /\ tokenizer \in BOOLEAN
    /\ IdleTruncate
    /\ IdleGit
    /\ IdleLoad
    /\ selected_files \in SeqsUpTo(PathNames, MaxFiles)
    /\ repo_data \in [LoadedPaths -> FileContents]
    /\ max_total_context_tokens \in ContextLimits
    /\ file_idx = 1
    /\ context_parts = <<>>
    /\ total_tokens = 0
    /\ accepted = <<>>
    /\ stopped_at = 0
    /\ result = <<>>
    /\ pk_pc = "loop"

NextPack == PackSkip \/ PackWhole \/ PackTruncate \/ PackStop \/ PackReturn

SpecPack == InitPack /\ [][NextPack]_vars

InitGit ==
    /\ tokenizer = TRUE
    /\ IdleTruncate
    /\ IdlePack
    /\ IdleLoad
    /\ repo_is_git \in BOOLEAN
    /\ repo_checks = 0
    /\ suggested_commands_str = <<>>
    /\ command_lines = <<>>
    /\ line_idx = 1
    /\ validated_command_parts = None
    /\ executed_commands = <<>>
    /\ final_output_log = <<>>
    /\ valid_command_found = FALSE
    /\ subprocess_runs = <<>>
    /\ llm_queries = <<>>
    /\ fs_written = FALSE
    /\ raised = "none"
    /\ gq_pc = "check"

NextGit ==
    \/ GqCheckRepo \/ GqSuggest \/ GqValidate \/ GqReject
    \/ GqRunOk \/ GqRunFail \/ GqNoValidCommand \/ GqSynthesize

SpecGit == InitGit /\ [][NextGit]_vars

InitLoad ==
    /\ tokenizer \in BOOLEAN
    /\ IdleTruncate
    /\ IdlePack
    /\ IdleGit
    /\ repo_path_is_dir \in BOOLEAN
    /\ tree \in (IF repo_path_is_dir THEN Trees ELSE {<<>>})
    /\ max_file_tokens \in FileTokenCaps
    /\ pending = DOMAIN tree
    /\ code_files = <<>>
    /\ file_load_errors = <<>>
    /\ ld_raised = "none"
    /\ ld_returned = FALSE
    /\ ld_pc = "check"

NextLoad ==
    \/ LdCheckRoot \/ LdSkipIgnored \/ LdSkipDir \/ LdReadOk \/ LdReadFail
    \/ LdRaiseErrors \/ LdRaiseNoFiles \/ LdReturn

SpecLoad == InitLoad /\ [][NextLoad]_vars

-----------------------------------------------------------------------------
(* Claims.                                                                 *)

(* C1: for every text and every max_tokens >= 0 the output of              *)
(* truncate_text, marker included, never has an estimate above max_tokens. *)
C1_TruncatedWithinMax ==
    tr_pc = "done" => count_tokens(truncated) <= max_tokens

(* C2: the string returned by build_context_string never has an estimate   *)
(* above max_total_context_tokens, also when the last accepted file was    *)
(* added through the truncation branch.                                    *)
C2_ResultWithinLimit ==
    pk_pc = "done" => count_tokens(result) <= max_total_context_tokens

Tok_oneline == <<"-", "-", "o", "n", "e", "l", "i", "n", "e">>
Tok_file_with_spaces ==
    <<"f", "i", "l", "e", " ", "w", "i", "t", "h", " ", "s", "p", "a", "c", "e", "s", ".", "p", "y">>

(* C3: every argument vector handed to subprocess.run has at least two     *)
(* tokens, the first "git" and the second log or blame, and it is the      *)
(* validated token vector of a suggested line: no line that fails          *)
(* validation is executed.                                                 *)
C3_OnlyValidatedCommandsRun ==
    /\ Len(executed_commands) = Len(subprocess_runs)
    /\ \A i \in 1..Len(subprocess_runs) :
         LET argv == subprocess_runs[i].argv
             v == _validate_git_command(strip(executed_commands[i]))
         IN  /\ Len(argv) >= 2
             /\ argv[1] = <<"g", "i", "t">>
             /\ argv[2] \in {<<"l", "o", "g">>, <<"b", "l", "a", "m", "e">>}
             /\ \E j \in 1..Len(command_lines) : command_lines[j] = executed_commands[i]
             /\ v.accepted
             /\ v.parts = argv

C3_Witness ==
    /\ gq_pc = "done"
    /\ Len(command_lines) >= 2
    /\ strip(command_lines[1]) = Cmd_push
    /\ Len(subprocess_runs) = 1
    /\ subprocess_runs[1].argv[2] = Tok_blame

(* C4: _validate_git_command accepts a line exactly when shell             *)
(* tokenization succeeds, gives at least two tokens, the first is "git"    *)
(* and the second is log or blame; on acceptance it returns the token      *)
(* vector; "git log --oneline" gives [git, log, --oneline], a quoted       *)
(* argument with spaces is one token, and "rm -rf /", "git push origin     *)
(* main", the empty line and a line with unbalanced quotes are rejected.   *)
C4_ValidateAcceptsExactly ==
    gq_pc = "validated" =>
        LET line == strip(command_str)
            r == shlex_split(line)
            v == validated_command_parts
        IN  /\ v.accepted <=> /\ r.ok
                              /\ Len(r.parts) >= 2
                              /\ r.parts[1] = <<"g", "i", "t">>
                              /\ r.parts[2] \in {<<"l", "o", "g">>, <<"b", "l", "a", "m", "e">>}
            /\ v.accepted => v.parts = r.parts
            /\ ~v.accepted => v = None
            /\ line = Cmd_log_oneline =>
                 v.accepted /\ v.parts = <<Tok_git, Tok_log, Tok_oneline>>
            /\ line = Cmd_blame_quoted =>
                 v.accepted /\ v.parts = <<Tok_git, Tok_blame, Tok_file_with_spaces>>
            /\ line \in {Cmd_rm, Cmd_push, <<>>, Cmd_unbalanced} => ~v.accepted

C4_Witness ==
    /\ gq_pc = "validated"
    /\ line_idx = 3
    /\ command_lines[1] = Cmd_blame_quoted
    /\ command_lines[2] = <<>>
    /\ command_lines[3] = Cmd_unbalanced
    /\ ~validated_command_parts.accepted
    /\ Len(subprocess_runs) = 1
    /\ Len(subprocess_runs[1].argv) = 3

(* C5: no command accepted by the validator can cause a write: executing   *)
(* git log or git blame with any further flags leaves the filesystem       *)
(* unchanged.                                                              *)
C5_AcceptedCommandsNeverWrite ==
    ~fs_written

RECURSIVE ValidArgvs(_, _)
ValidArgvs(lines, n) ==
    IF n = 0 THEN <<>>
    ELSE LET v == _validate_git_command(strip(lines[n]))
         IN  IF v.accepted THEN Append(ValidArgvs(lines, n - 1), v.parts)
             ELSE ValidArgvs(lines, n - 1)

SuggestionObtained == Len(llm_queries) >= 1 /\ llm_queries[1].ok

(* C6: every suggested line is handled independently and in input order:   *)
(* a rejected line, or a validated command that exits non-zero or fails to *)
(* spawn, never raises out of the loop and never prevents a later valid    *)
(* line from being executed.                                               *)
C6_LinesHandledIndependently ==
    /\ [i \in 1..Len(subprocess_runs) |-> subprocess_runs[i].argv]
           = ValidArgvs(command_lines, line_idx - 1)
    /\ gq_pc \in {"loop", "validated"} => raised = "none"
    /\ (gq_pc = "done" /\ SuggestionObtained) => line_idx = Len(command_lines) + 1

C6_Witness ==
    /\ gq_pc = "done"
    /\ Len(command_lines) = 3
    /\ ~_validate_git_command(strip(command_lines[1])).accepted
    /\ Len(subprocess_runs) = 2
    /\ subprocess_runs[1].outcome = "spawn_error"
    /\ subprocess_runs[2].outcome = "ok"

(* C7: one execution record per attempted command, each with that          *)
(* command's output and a succeeded flag, so the number of recorded        *)
(* outputs always equals the number of recorded commands.                  *)
C7_OneOutputPerCommand ==
    Len(final_output_log) = Len(executed_commands)

HasSynthesis == \E i \in 1..Len(llm_queries) : llm_queries[i].kind = "synthesis"
SomeRunOk == \E i \in 1..Len(subprocess_runs) : subprocess_runs[i].outcome = "ok"

(* C8: once the suggestion has been obtained, handle_query raises          *)
(* GitExecutionError and issues no synthesis query exactly when no command *)
(* ran successfully; when at least one succeeded it raises no              *)
(* GitExecutionError and issues the synthesis query, after the last        *)
(* command has been attempted.                                             *)
C8_RaisesIffNothingSucceeded ==
    /\ HasSynthesis => (line_idx > Len(command_lines) /\ SomeRunOk)
    /\ (gq_pc = "done" /\ SuggestionObtained) =>
         IF SomeRunOk
         THEN raised # "GitExecutionError" /\ HasSynthesis
         ELSE raised = "GitExecutionError" /\ ~HasSynthesis

C8_Witness ==
    /\ gq_pc = "done"
    /\ SuggestionObtained
    /\ Len(subprocess_runs) >= 2
    /\ ~SomeRunOk
    /\ raised = "GitExecutionError"

(* C9: when the working directory is not a Git repository, handle_query    *)
(* raises GitExecutionError before any LLM query and before any            *)
(* subprocess; the check is made once per call, not once per command.      *)
C9_InvalidRepoRaisesFirst ==
    /\ repo_checks <= 1
    /\ gq_pc # "check" => repo_checks = 1
    /\ ~repo_is_git =>
         /\ llm_queries = <<>>
         /\ subprocess_runs = <<>>
         /\ gq_pc # "check" => (gq_pc = "done" /\ raised = "GitExecutionError")

C9_Witness ==
    /\ ~repo_is_git
    /\ gq_pc = "done"
    /\ raised = "GitExecutionError"
    /\ repo_checks = 1

EndsWith(s, suffix) ==
    Len(s) >= Len(suffix) /\ SubSeq(s, Len(s) - Len(suffix) + 1, Len(s)) = suffix

C10_Step ==
    /\ (InLoop /\ file_path \in DOMAIN repo_data /\ ~FitsWhole) =>
         /\ pk_pc' = "join"
         /\ stopped_at' = file_idx
         /\ IF available_tokens > 50
            THEN /\ Len(context_parts') = Len(context_parts) + 1
                 /\ SubSeq(context_parts', 1, Len(context_parts)) = context_parts
                 /\ LET part == context_parts'[Len(context_parts')]
                        h == header(file_path)
                    IN  /\ Take(part, Len(h)) = h
                        /\ EndsWith(part, Marker)
                        /\ part # h \o repo_data[file_path]
            ELSE context_parts' = context_parts
    /\ pk_pc = "join" =>
         /\ context_parts' = context_parts
         /\ result' = Join(separator, context_parts)
         /\ pk_pc' = "done"

(* C10: packing ends at the first present file that does not fit whole: it *)
(* is added truncated as the last segment when the space left for its body *)
(* is above 50 tokens and is not added otherwise, and in both cases the    *)
(* result is the join of the segments accepted so far, so no later path    *)
(* appears in it.                                                          *)
C10_PackingEndsAtFirstMisfit ==
    [][C10_Step]_vars

C10_Witness ==
    /\ pk_pc = "done"
    /\ stopped_at = 1
    /\ Len(selected_files) >= 2
    /\ selected_files[2] \in DOMAIN repo_data
    /\ repo_data[selected_files[2]] = Words(2)
    /\ count_tokens(header(selected_files[2])) + 2 <= max_total_context_tokens
    /\ accepted = <<>>
    /\ result = <<>>

(* C11: for every text t and every n >= 0 with count_tokens(t) <= n,       *)
(* truncate_text(t, n) returns t unchanged, n = 0 and non-empty texts of   *)
(* estimate 0 included.                                                    *)
C11_NoOpWithinBudget ==
    (tr_pc = "done" /\ count_tokens(text) <= max_tokens) => truncated = text

(* C11 as amended: with count_tokens(t) <= n, truncate_text(t, n) returns  *)
(* t unchanged when n >= 1 or t is empty (whitespace-only texts of         *)
(* estimate 0 included); for n = 0 it returns the empty text whatever t.   *)
C11_NoOpWithinPositiveBudget ==
    tr_pc = "done" =>
        /\ (count_tokens(text) <= max_tokens /\ (max_tokens >= 1 \/ text = <<>>))
              => truncated = text
        /\ max_tokens = 0 => truncated = <<>>

C11_Witness ==
    /\ tr_pc = "done"
    /\ ~tokenizer
    /\ text = <<" ", " ">>
    /\ count_tokens(text) = 0
    /\ max_tokens = 1
    /\ truncated = text

RegularFiles == {rel \in DOMAIN tree : tree[rel].kind = "file"}

(* C12: every content stored by load_repository has an estimate of at most *)
(* max_file_tokens: a file above the cap is stored in a truncated form     *)
(* whose own count_tokens value is within the cap.                         *)
C12_StoredWithinCap ==
    \A k \in DOMAIN code_files : count_tokens(code_files[k]) <= max_file_tokens

\* the ignore rule as specified: the base name against ignore_files, the
\* names of the directories above the file against ignore_dirs
InIgnoredDirectory(rel) == \E i \in 1..(Len(rel) - 1) : rel[i] \in ignore_dirs

(* C13: a regular file under the root is in the scan result iff its base   *)
(* name is not in ignore_files and no directory between the root and the   *)
(* file is named in ignore_dirs, at any depth; a regular file whose own    *)
(* base name is an ignored-directory name but which lies in no ignored     *)
(* directory is scanned; every key is a path relative to the root.         *)
C13_ScannedIffNotIgnored ==
    ld_returned =>
        /\ \A rel \in RegularFiles :
              str(rel) \in DOMAIN code_files
                  <=> (name(rel) \notin ignore_files /\ ~InIgnoredDirectory(rel))
        /\ \A k \in DOMAIN code_files : \E rel \in RegularFiles : k = str(rel)

Remaining == {rel \in RegularFiles : ~_is_ignored(repo_path \o rel, repo_path)}

(* C14: load_repository returns a file map only if the root is a           *)
(* directory, every regular file the scan does not ignore was read without *)
(* error and at least one file remains; if the root is not a directory,    *)
(* if any file fails to read, wherever it comes in the walk, or if no file *)
(* remains after ignoring, it raises RepoProcessingError and returns no    *)
(* map, partial or other.                                                  *)
C14_ReturnsOnlyCompleteMaps ==
    /\ ld_returned => (ld_pc = "done" /\ ld_raised = "none")
    /\ ld_pc = "done" =>
         /\ ld_returned \/ ld_raised = "RepoProcessingError"
         /\ ld_returned <=> /\ repo_path_is_dir
                            /\ \A rel \in Remaining : tree[rel].readable
                            /\ Remaining # {}
         /\ ld_returned => DOMAIN code_files = {str(rel) : rel \in Remaining}

C14_Witness ==
    /\ ld_pc = "done"
    /\ ld_raised = "RepoProcessingError"
    /\ ~ld_returned
    /\ DOMAIN code_files # {}
    /\ Len(file_load_errors) = 1
    /\ file_load_errors[1] = repo_path \o <<N_src, N_main>>

LastAccepted == selected_files[accepted[Len(accepted)].idx]

(* C15: when the result of build_context_string exceeds the budget, it     *)
(* exceeds it by no more than the header cost of one file:                 *)
(* count_tokens(result) - limit <= count_tokens(header of the last         *)
(* accepted file), for every input.                                        *)
C15_OvershootWithinHeader ==
    (pk_pc = "done" /\ accepted # <<>>) =>
        count_tokens(result) - max_total_context_tokens
            <= count_tokens(header(LastAccepted))

(* C16: build_context_string has no exit but its return (it never raises); *)
(* it returns the empty string for an empty path list and for a budget of  *)
(* zero, whatever the files; a single file larger than                     *)
(* the whole budget gives the empty string when the space left for its     *)
(* body is at most the threshold and one truncated segment when it is      *)
(* above.                                                                  *)
C16_EdgeCases ==
    /\ pk_pc \in {"loop", "join", "done"}
    /\ pk_pc = "done" =>
         /\ selected_files = <<>> => result = <<>>
         /\ max_total_context_tokens = 0 => result = <<>>
         /\ ( /\ Len(selected_files) = 1
              /\ selected_files[1] \in DOMAIN repo_data
              /\ count_tokens(repo_data[selected_files[1]]) > max_total_context_tokens ) =>
                LET h == header(selected_files[1])
                    body == repo_data[selected_files[1]]
                    space == max_total_context_tokens - count_tokens(h)
                IN  IF space <= min_meaningful_tokens
                    THEN result = <<>>
                    ELSE /\ Len(context_parts) = 1
                         /\ result = context_parts[1]
                         /\ \E dec \in DecodeOutcomes :
                                result = h \o truncate_text(body, space, dec)
                         /\ EndsWith(result, Marker)
                         /\ result # h \o body

C16_Witness ==
    /\ pk_pc = "done"
    /\ tokenizer
    /\ Len(selected_files) = 1
    /\ selected_files[1] \in DOMAIN repo_data
    /\ repo_data[selected_files[1]] = Words(60)
    /\ max_total_context_tokens = 60
    /\ result # <<>>

\* the estimation method selected when utils.py is imported
SelectedMethod == IF tokenizer THEN "tokenizer" ELSE "words"

(* C17: within one run a single estimation method is used: once the        *)
(* tokenizer has been selected no call of count_tokens falls back to the   *)
(* word count, and once the word count has been selected none uses the     *)
(* tokenizer, so the estimates added and compared for every file a packing *)
(* call has handled (header, content, separator) come from the same        *)
(* method.                                                                 *)
C17_SingleEstimator ==
    \A i \in {accepted[j].idx : j \in 1..Len(accepted)} \cup ({stopped_at} \ {0}) :
        \A t \in {header(selected_files[i]), repo_data[selected_files[i]], separator} :
            estimate_method(t) \in {"none", SelectedMethod}

\* header cost plus body cost of the first n accepted segments, plus one
\* separator cost for each of them after the first
RECURSIVE SegmentsCost(_)
SegmentsCost(n) ==
    IF n = 0 THEN 0
    ELSE LET h == header(selected_files[accepted[n].idx])
             body == SubSeq(context_parts[n], Len(h) + 1, Len(context_parts[n]))
         IN  SegmentsCost(n - 1) + count_tokens(h) + count_tokens(body)
                 + (IF n > 1 THEN separator_tokens ELSE 0)

(* C18: the separator cost is added to the running total only for the      *)
(* second and later accepted files, on the whole-file branch and on the    *)
(* truncation branch alike: after every acceptance the running total is    *)
(* the sum over the accepted segments of header cost plus body cost, plus  *)
(* one separator cost per accepted segment after the first.                *)
C18_TotalIsSumOfSegments ==
    /\ Len(accepted) = Len(context_parts)
    /\ total_tokens = SegmentsCost(Len(accepted))

\* the accepted segments are those of present paths, in the order of the
\* input list, each under its own header, a whole one with its stored content
SegmentsInOrder(acc, parts) ==
    /\ Len(acc) = Len(parts)
    /\ \A i \in 1..Len(acc) :
         LET f == selected_files[acc[i].idx]
         IN  /\ f \in DOMAIN repo_data
             /\ Take(parts[i], Len(header(f))) = header(f)
             /\ acc[i].how = "whole" => parts[i] = header(f) \o repo_data[f]
    /\ \A i \in 1..Len(acc) : \A j \in 1..Len(acc) : i < j => acc[i].idx < acc[j].idx

C19_Step ==
    /\ (InLoop /\ file_path \notin DOMAIN repo_data) =>
         /\ total_tokens' = total_tokens
         /\ context_parts' = context_parts
         /\ accepted' = accepted
         /\ pk_pc' = "loop"
         /\ file_idx' = file_idx + 1
    /\ (InLoop /\ file_path \in DOMAIN repo_data /\ accepted = <<>>) =>
         LET h == header(file_path)
             content == repo_data[file_path]
         IN  /\ total_tokens = 0
             /\ needed_tokens = count_tokens(h) + count_tokens(content)
             /\ available_tokens = max_total_context_tokens - count_tokens(h)
             /\ (accepted' # <<>> /\ accepted'[1].how = "whole") =>
                    total_tokens' = count_tokens(h) + count_tokens(content)
    /\ SegmentsInOrder(accepted', context_parts')
    /\ pk_pc' = "done" => result' = Join(separator, context_parts')

(* C19: a path absent from the file map is skipped without changing the    *)
(* running total, without ending the loop and without counting as an       *)
(* accepted file: the cost and the space computed for the next present     *)
(* file hold no separator when nothing was accepted before it; the         *)
(* accepted segments appear in the result in the order of their paths in   *)
(* the input list, and a file accepted whole has its stored content as     *)
(* body.                                                                   *)
C19_AbsentPathsSkipped ==
    [][C19_Step]_vars

C19_Witness ==
    /\ pk_pc = "done"
    /\ Len(selected_files) = 3
    /\ selected_files[1] \notin DOMAIN repo_data
    /\ Len(accepted) = 2
    /\ accepted[1] = [idx |-> 2, how |-> "whole"]
    /\ accepted[2].idx = 3
    /\ repo_data[selected_files[2]] = Words(30)
    /\ result # <<>>

=============================================================================
